---- MODULE Spec2Model ----
(***************************************************************************)
(* Model of cephfs/cephfs_provisioner/cephfs_provisioner.py:               *)
(* CephFSNativeDriver._authorize_ceph and its nested cap_update.           *)
(*                                                                         *)
(* A Python string is a sequence of symbols: the symbol "," is the comma   *)
(* character, every other symbol is a comma-free run of characters that    *)
(* the code never looks inside ("allow r", "allow rw path=/x", ...).       *)
(* str.split(",") and ",".join(...) are computed on that sequence.         *)
(* A Python set has no defined iteration order: joining a set yields any   *)
(* of its orders.                                                          *)
(***************************************************************************)
EXTENDS Integers, Sequences, FiniteSets, TLC

VARIABLES store, pc, args, existing, cmds, caps, fetch, err,
          rpc, orig, want, unwanted, res, res2

vars == <<store, pc, args, existing, cmds, caps, fetch, err,
          rpc, orig, want, unwanted, res, res2>>
svars == <<store, pc, args, existing, cmds, caps, fetch, err>>
rvars == <<rpc, orig, want, unwanted, res, res2>>

(* ---- bounds and finite input sets ---- *)
MaxLen == 3
Procs == {"p1", "p2"}
Volumes == {"foo"}
AuthIds == {"bar"}

(* ---- strings ---- *)
Comma == ","
Str(a) == <<a>>
EmptyStr == <<>>

RECURSIVE split(_)
split(s) ==
    IF \A i \in DOMAIN s : s[i] # Comma
    THEN <<s>>
    ELSE LET i == CHOOSE k \in DOMAIN s :
                      /\ s[k] = Comma
                      /\ \A j \in 1..(k - 1) : s[j] # Comma
         IN  <<SubSeq(s, 1, i - 1)>> \o split(SubSeq(s, i + 1, Len(s)))

RECURSIVE join_nosep(_)
join_nosep(l) ==
    IF l = <<>> THEN <<>> ELSE l[1] \o join_nosep(Tail(l))

RECURSIVE join(_)
join(l) ==
    IF l = <<>> THEN <<>>
    ELSE IF Len(l) = 1 THEN l[1]
    ELSE l[1] \o <<Comma>> \o join(Tail(l))

set(l) == {l[i] : i \in DOMAIN l}

RECURSIVE iter(_)
iter(S) ==
    IF S = {} THEN {<<>>}
    ELSE UNION {{<<x>> \o t : t \in iter(S \ {x})} : x \in S}

(* ---- cap_update ---- *)
(* variants of cap_update with one step changed *)
cap_update_swapped(o, w, u) ==
    LET cap_tokens == set(split(o))
        discarded  == cap_tokens \ {w}
        added      == discarded \cup {u}
    IN  {join(l) : l \in iter(added)}

cap_update_fresh(o, w, u) ==
    LET cap_tokens == {}
        discarded  == cap_tokens \ {u}
        added      == discarded \cup {w}
    IN  {join(l) : l \in iter(added)}

cap_update_addfirst(o, w, u) ==
    LET cap_tokens == set(split(o))
        added      == cap_tokens \cup {w}
        discarded  == added \ {u}
    IN  {join(l) : l \in iter(discarded)}

cap_update_list(o, w, u) ==
    LET cap_tokens == split(o)
        discarded  == SelectSeq(cap_tokens, LAMBDA t : t # u)
        added      == discarded \o <<w>>
    IN  {join(added)}

cap_update(o, w, u) ==
    LET cap_tokens == set(split(o))
        discarded  == cap_tokens \ {u}
        added      == discarded \cup {w}
    IN  {join(l) : l \in iter(added)}

(* ---- path metadata (external lookups of lines 109-114) ---- *)
VOlUME_GROUP == "kubernetes"
get_path(v) == "/volumes/" \o VOlUME_GROUP \o "/" \o v
pool_name(v) == "cephfs_data"
namespace(v) == "fsvolumens_" \o v

(* ---- grant construction ---- *)
client_entity(auth_id) == "client." \o auth_id
want_access_level(readonly) == IF readonly THEN "r" ELSE "rw"
(* line 148 compares with `is`; both operands are the literal 'rw' of one  *)
(* code object, so the identity test agrees with equality.                *)
unwanted_access_level_rw(level) == "rw"
unwanted_access_level(level) == IF level = "rw" THEN "r" ELSE "rw"
mds_path_cap(level, path) == "allow " \o level \o " path=" \o path
osd_cap(level, pool, ns) ==
    Str("allow " \o level \o " pool=" \o pool \o " namespace=" \o ns)
want_mds_cap(level, path) == <<"allow r", Comma, mds_path_cap(level, path)>>
want_osd_cap(level, pool, ns) == osd_cap(level, pool, ns)
unwanted_mds_cap(level, path) == Str(mds_path_cap(level, path))
unwanted_osd_cap(level, pool, ns) == osd_cap(level, pool, ns)

(* dict.get(k, default) on a caps mapping *)
get(d, k, default) == IF k \in DOMAIN d THEN d[k] ELSE default

create_caps_monstar(a) ==
    LET level == want_access_level(a.readonly) IN
    [mds |-> want_mds_cap(level, get_path(a.volume)),
     osd |-> want_osd_cap(level, pool_name(a.volume), namespace(a.volume)),
     mon |-> Str("allow *")]

(* caps list of 'auth get-or-create', lines 137-140 *)
create_caps(a) ==
    LET level == want_access_level(a.readonly) IN
    [mds |-> want_mds_cap(level, get_path(a.volume)),
     osd |-> want_osd_cap(level, pool_name(a.volume), namespace(a.volume)),
     mon |-> Str("allow r")]

update_caps_fixedmon(a, cap) ==
    LET level == want_access_level(a.readonly)
        unlevel == unwanted_access_level(level)
        path == get_path(a.volume)
        pool == pool_name(a.volume)
        ns == namespace(a.volume)
        osd_strs == cap_update(get(cap.caps, "osd", EmptyStr),
                               want_osd_cap(level, pool, ns),
                               unwanted_osd_cap(unlevel, pool, ns))
        mds_strs == cap_update(get(cap.caps, "mds", EmptyStr),
                               want_mds_cap(level, path),
                               unwanted_mds_cap(unlevel, path))
    IN  {[mds |-> m, osd |-> o, mon |-> Str("allow r")]
         : m \in mds_strs, o \in osd_strs}

(* caps lists 'auth caps' may be given, lines 144-175; cap is existing[0] *)
update_caps(a, cap) ==
    LET level == want_access_level(a.readonly)
        unlevel == unwanted_access_level(level)
        path == get_path(a.volume)
        pool == pool_name(a.volume)
        ns == namespace(a.volume)
        osd_strs == cap_update(get(cap.caps, "osd", EmptyStr),
                               want_osd_cap(level, pool, ns),
                               unwanted_osd_cap(unlevel, pool, ns))
        mds_strs == cap_update(get(cap.caps, "mds", EmptyStr),
                               want_mds_cap(level, path),
                               unwanted_mds_cap(unlevel, path))
    IN  {[k \in {"mds", "osd"} \cup (DOMAIN cap.caps \cap {"mon"}) |->
            IF k = "mds" THEN m ELSE IF k = "osd" THEN o ELSE cap.caps.mon]
         : m \in mds_strs, o \in osd_strs}

assert_ok_first(c, e) == Len(c) >= 1 /\ c[1].entity = e
(* asserts of lines 195-196 *)
assert_ok(c, e) == Len(c) = 1 /\ c[1].entity = e

(* ---- the auth service (external collaborator) ---- *)
Key(e) == "key." \o e
Entities == {client_entity(i) : i \in AuthIds}
AdminMade(e) ==
    [entity |-> e, key |-> Key(e),
     caps |-> [mds |-> Str("allow *"), mon |-> Str("allow *")]]
(* what create_share(v, i) left behind in an earlier run: line 218 *)
AuthorizedBefore(v, e) ==
    [entity |-> e, key |-> Key(e),
     caps |-> create_caps([volume |-> v, auth_id |-> "", readonly |-> FALSE])]
Stranger == [entity |-> "client.admin", key |-> Key("client.admin"),
             caps |-> [mds |-> Str("allow *"), mon |-> Str("allow *")]]
(* decoded outputs a command answering with record r can hand back *)
Outputs(r) == {<<r>>, <<>>, <<Stranger>>, <<r, Stranger>>}

Cmd(prefix, e, c) == [prefix |-> prefix, entity |-> e, caps |-> c]
NoCaps == [k \in {} |-> EmptyStr]

NoArgs == [volume |-> "", auth_id |-> "", readonly |-> FALSE]

SInit0(running) ==
    /\ pc = [p \in Procs |-> IF p \in running THEN "idle" ELSE "absent"]
    /\ args = [p \in Procs |-> NoArgs]
    /\ existing = [p \in Procs |-> <<>>]
    /\ cmds = [p \in Procs |-> <<>>]
    /\ caps = [p \in Procs |-> <<>>]
    /\ fetch = [p \in Procs |-> ""]
    /\ err = [p \in Procs |-> ""]

RInit0 ==
    /\ rpc = "off"
    /\ orig = EmptyStr
    /\ want = EmptyStr
    /\ unwanted = EmptyStr
    /\ res = EmptyStr
    /\ res2 = EmptyStr

StoreInit ==
    \E S \in SUBSET Entities :
        \E f \in [S -> {"admin", "earlier"}] :
            store = [e \in S |-> IF f[e] = "admin" THEN AdminMade(e)
                                 ELSE AuthorizedBefore("baz", e)]

Init ==
    /\ StoreInit
    /\ SInit0({"p1"})
    /\ RInit0

(* _authorize_ceph entered: lines 108-122 *)
Authorize(p) ==
    /\ pc[p] = "idle"
    /\ \E v \in Volumes, i \in AuthIds, ro \in BOOLEAN :
          args' = [args EXCEPT ![p] = [volume |-> v, auth_id |-> i, readonly |-> ro]]
    /\ pc' = [pc EXCEPT ![p] = "auth get"]
    /\ UNCHANGED <<store, existing, cmds, caps, fetch, err>>
    /\ UNCHANGED rvars

(* 'auth get', lines 124-132 and 142-144 *)
AuthGet(p) ==
    /\ pc[p] = "auth get"
    /\ LET e == client_entity(args[p].auth_id) IN
       /\ cmds' = [cmds EXCEPT ![p] = Append(@, Cmd("auth get", e, NoCaps))]
       /\ \/ /\ e \in DOMAIN store
             /\ existing' = [existing EXCEPT ![p] = <<store[e]>>]
             /\ fetch' = [fetch EXCEPT ![p] = "found"]
             /\ pc' = [pc EXCEPT ![p] = "auth caps"]
          \/ /\ e \notin DOMAIN store
             /\ fetch' = [fetch EXCEPT ![p] = "ENOENT"]
             /\ pc' = [pc EXCEPT ![p] = "auth get-or-create"]
             /\ UNCHANGED existing
          \/ /\ fetch' = [fetch EXCEPT ![p] = "transport"]
             /\ pc' = [pc EXCEPT ![p] = "auth get-or-create"]
             /\ UNCHANGED existing
    /\ UNCHANGED <<store, args, caps, err>>
    /\ UNCHANGED rvars

(* 'auth get-or-create', lines 133-141 *)
AuthGetOrCreate(p) ==
    /\ pc[p] = "auth get-or-create"
    /\ LET e == client_entity(args[p].auth_id)
           c == create_caps(args[p])
           r == [entity |-> e, key |-> Key(e), caps |-> c]
       IN
       /\ cmds' = [cmds EXCEPT ![p] = Append(@, Cmd("auth get-or-create", e, c))]
       /\ \/ /\ e \notin DOMAIN store
             /\ store' = [x \in DOMAIN store \cup {e} |-> IF x = e THEN r ELSE store[x]]
             /\ \E out \in Outputs(r) : caps' = [caps EXCEPT ![p] = out]
             /\ pc' = [pc EXCEPT ![p] = "assert"]
             /\ UNCHANGED err
          \/ /\ e \in DOMAIN store
             /\ store[e].caps = c
             /\ \E out \in Outputs(store[e]) : caps' = [caps EXCEPT ![p] = out]
             /\ pc' = [pc EXCEPT ![p] = "assert"]
             /\ UNCHANGED <<store, err>>
          \/ /\ err' = [err EXCEPT ![p] = "rados.Error"]
             /\ pc' = [pc EXCEPT ![p] = "raised"]
             /\ UNCHANGED <<store, caps>>
    /\ UNCHANGED <<args, existing, fetch>>
    /\ UNCHANGED rvars

(* 'auth caps' as it would be if the service reconciled against the caps   *)
(* it holds at commit time instead of the ones this call fetched          *)
AuthCaps_atomic(p) ==
    /\ pc[p] = "auth caps"
    /\ LET e == client_entity(args[p].auth_id) IN
       \E c \in update_caps(args[p], IF e \in DOMAIN store THEN store[e]
                                     ELSE existing[p][1]) :
          /\ cmds' = [cmds EXCEPT ![p] = Append(@, Cmd("auth caps", e, c))]
          /\ \/ /\ e \in DOMAIN store
                /\ store' = [store EXCEPT ![e].caps = c]
                /\ pc' = [pc EXCEPT ![p] = "auth get again"]
                /\ UNCHANGED err
             \/ /\ err' = [err EXCEPT ![p] = "rados.Error"]
                /\ pc' = [pc EXCEPT ![p] = "raised"]
                /\ UNCHANGED store
    /\ UNCHANGED <<args, existing, caps, fetch>>
    /\ UNCHANGED rvars

(* cap_update twice and 'auth caps', lines 144-176 *)
AuthCaps(p) ==
    /\ pc[p] = "auth caps"
    /\ LET e == client_entity(args[p].auth_id) IN
       \E c \in update_caps(args[p], existing[p][1]) :
          /\ cmds' = [cmds EXCEPT ![p] = Append(@, Cmd("auth caps", e, c))]
          /\ \/ /\ e \in DOMAIN store
                /\ store' = [store EXCEPT ![e].caps = c]
                /\ pc' = [pc EXCEPT ![p] = "auth get again"]
                /\ UNCHANGED err
             \/ /\ err' = [err EXCEPT ![p] = "rados.Error"]
                /\ pc' = [pc EXCEPT ![p] = "raised"]
                /\ UNCHANGED store
    /\ UNCHANGED <<args, existing, caps, fetch>>
    /\ UNCHANGED rvars

(* second 'auth get', lines 177-182 *)
AuthGetAgain(p) ==
    /\ pc[p] = "auth get again"
    /\ LET e == client_entity(args[p].auth_id) IN
       /\ cmds' = [cmds EXCEPT ![p] = Append(@, Cmd("auth get", e, NoCaps))]
       /\ \/ /\ e \in DOMAIN store
             /\ \E out \in Outputs(store[e]) : caps' = [caps EXCEPT ![p] = out]
             /\ pc' = [pc EXCEPT ![p] = "assert"]
             /\ UNCHANGED err
          \/ /\ err' = [err EXCEPT ![p] = "rados.Error"]
             /\ pc' = [pc EXCEPT ![p] = "raised"]
             /\ UNCHANGED caps
    /\ UNCHANGED <<store, args, existing, fetch>>
    /\ UNCHANGED rvars

(* lines 195-197 *)
AssertAndReturn(p) ==
    /\ pc[p] = "assert"
    /\ IF assert_ok(caps[p], client_entity(args[p].auth_id))
       THEN /\ pc' = [pc EXCEPT ![p] = "returned"]
            /\ UNCHANGED err
       ELSE /\ pc' = [pc EXCEPT ![p] = "raised"]
            /\ err' = [err EXCEPT ![p] = "AssertionError"]
    /\ UNCHANGED <<store, args, existing, cmds, caps, fetch>>
    /\ UNCHANGED rvars

(* the call is over; the next one starts from fresh locals *)
Leave(p) ==
    /\ pc[p] \in {"returned", "raised"}
    /\ pc' = [pc EXCEPT ![p] = "idle"]
    /\ args' = [args EXCEPT ![p] = NoArgs]
    /\ existing' = [existing EXCEPT ![p] = <<>>]
    /\ cmds' = [cmds EXCEPT ![p] = <<>>]
    /\ caps' = [caps EXCEPT ![p] = <<>>]
    /\ fetch' = [fetch EXCEPT ![p] = ""]
    /\ err' = [err EXCEPT ![p] = ""]
    /\ UNCHANGED store
    /\ UNCHANGED rvars

Next ==
    \E p \in Procs :
        \/ Authorize(p)
        \/ AuthGet(p)
        \/ AuthGetOrCreate(p)
        \/ AuthCaps(p)
        \/ AuthGetAgain(p)
        \/ AssertAndReturn(p)
        \/ Leave(p)

Spec == Init /\ [][Next]_vars

(* ---- two runs of the provisioner at once ---- *)
(* main (lines 261-262) calls create_share once and the process ends;     *)
(* create_share always asks for read-write access (line 218).             *)
RaceVolumes == {"foo", "baz"}

InitRace ==
    /\ StoreInit
    /\ SInit0(Procs)
    /\ RInit0

AuthorizeRace(p) ==
    /\ pc[p] = "idle"
    /\ \E v \in RaceVolumes, i \in AuthIds :
          args' = [args EXCEPT ![p] = [volume |-> v, auth_id |-> i, readonly |-> FALSE]]
    /\ pc' = [pc EXCEPT ![p] = "auth get"]
    /\ UNCHANGED <<store, existing, cmds, caps, fetch, err>>
    /\ UNCHANGED rvars

NextRace ==
    \E p \in Procs :
        \/ AuthorizeRace(p)
        \/ AuthGet(p)
        \/ AuthGetOrCreate(p)
        \/ AuthCaps(p)
        \/ AuthGetAgain(p)
        \/ AssertAndReturn(p)

SpecRace == InitRace /\ [][NextRace]_vars

(* ---- cap_update on its own: inputs drawn, then applied twice ---- *)
Atoms == {"allow r", mds_path_cap("r", "/a"), mds_path_cap("rw", "/a")}
Symbols == Atoms \cup {Comma}
Strings == UNION {[1..n -> Symbols] : n \in 0..MaxLen}
Tokens == {EmptyStr} \cup {Str(a) : a \in Atoms}

InitCapUpdate ==
    /\ store = [e \in {} |-> AdminMade(e)]
    /\ SInit0({})
    /\ rpc = "input"
    /\ orig \in Strings
    /\ want \in Tokens
    /\ unwanted \in Tokens
    /\ res = EmptyStr
    /\ res2 = EmptyStr

CapUpdate ==
    /\ rpc = "input"
    /\ res' \in cap_update(orig, want, unwanted)
    /\ rpc' = "returned"
    /\ UNCHANGED <<orig, want, unwanted, res2>>
    /\ UNCHANGED svars

CapUpdateAgain ==
    /\ rpc = "returned"
    /\ res2' \in cap_update(res, want, unwanted)
    /\ rpc' = "again"
    /\ UNCHANGED <<orig, want, unwanted, res>>
    /\ UNCHANGED svars

NextCapUpdate == CapUpdate \/ CapUpdateAgain

SpecCapUpdate == InitCapUpdate /\ [][NextCapUpdate]_vars

(* ======================= claims ======================= *)

(* C1: when authorize returns after updating an existing entity, the osd   *)
(* string it committed holds the token 'allow <level> pool=P namespace=N'  *)
(* of the requested level and not that of the complementary level, and the *)
(* mds string it committed holds the token 'allow <level> path=<path>' of  *)
(* the requested level and not that of the complementary level.            *)
C1_Converges ==
    \A p \in Procs : \A i \in DOMAIN cmds[p] :
        (pc[p] = "returned" /\ cmds[p][i].prefix = "auth caps") =>
            LET lv == IF args[p].readonly THEN "r" ELSE "rw"
                un == IF args[p].readonly THEN "rw" ELSE "r"
                v == args[p].volume
                osd(l) == <<"allow " \o l \o " pool=cephfs_data namespace=fsvolumens_" \o v>>
                mds(l) == <<"allow " \o l \o " path=/volumes/kubernetes/" \o v>>
                c == cmds[p][i].caps
            IN  /\ osd(lv) \in set(split(c.osd))
                /\ osd(un) \notin set(split(c.osd))
                /\ mds(lv) \in set(split(c.mds))
                /\ mds(un) \notin set(split(c.mds))

(* a downgrade: the fetched entity held the read-write grants of the path *)
C1_Witness ==
    \E p \in Procs : \E i \in DOMAIN cmds[p] :
        /\ pc[p] = "returned"
        /\ cmds[p][i].prefix = "auth caps"
        /\ args[p].readonly
        /\ "osd" \in DOMAIN existing[p][1].caps
        /\ <<"allow rw pool=cephfs_data namespace=fsvolumens_" \o args[p].volume>>
              \in set(split(existing[p][1].caps.osd))
        /\ <<"allow rw path=/volumes/kubernetes/" \o args[p].volume>>
              \in set(split(existing[p][1].caps.mds))

(* C2: when the fetch reports that the entity does not exist, the only     *)
(* command that follows it is 'auth get-or-create' with mds = 'allow r,    *)
(* allow <level> path=<path>', osd = 'allow <level> pool=<pool>            *)
(* namespace=<namespace>', mon = 'allow r'; the entity is stored with      *)
(* those caps; nothing was fetched to reconcile and no 'auth caps' is sent.*)
C2_FirstCreation ==
    \A p \in Procs :
        (fetch[p] = "ENOENT" /\ pc[p] \in {"assert", "returned", "raised"}) =>
            LET lv == IF args[p].readonly THEN "r" ELSE "rw"
                v == args[p].volume
                e == "client." \o args[p].auth_id
                expected ==
                    [mds |-> <<"allow r", ",", "allow " \o lv \o " path=/volumes/kubernetes/" \o v>>,
                     osd |-> <<"allow " \o lv \o " pool=cephfs_data namespace=fsvolumens_" \o v>>,
                     mon |-> <<"allow r">>]
            IN  /\ Len(cmds[p]) = 2
                /\ cmds[p][1].prefix = "auth get"
                /\ cmds[p][2] = [prefix |-> "auth get-or-create", entity |-> e, caps |-> expected]
                /\ existing[p] = <<>>
                /\ (err[p] # "rados.Error") => (e \in DOMAIN store /\ store[e].caps = expected)

C2_Witness ==
    \E p \in Procs :
        /\ fetch[p] = "ENOENT"
        /\ pc[p] = "returned"
        /\ ~args[p].readonly
        /\ store["client." \o args[p].auth_id].caps.mon = <<"allow r">>

(* C3: for want # unwanted, the tokens of the string cap_update returns    *)
(* include want and exclude unwanted.                                      *)
C3_WantInUnwantedOut ==
    (rpc # "input" /\ want # unwanted) =>
        /\ want \in set(split(res))
        /\ unwanted \notin set(split(res))

C3_Witness ==
    /\ rpc = "returned"
    /\ want # unwanted
    /\ unwanted \in set(split(orig))
    /\ want \notin set(split(orig))
    /\ Cardinality(set(split(orig))) >= 2

(* C4: no capability string sent to the auth service has a token that      *)
(* occurs twice when split on commas, and the wanted path/pool grant       *)
(* occurs exactly once in it.                                              *)
C4_NoDuplicateTokens ==
    \A p \in Procs : \A i \in DOMAIN cmds[p] :
        cmds[p][i].prefix \in {"auth caps", "auth get-or-create"} =>
            LET lv == IF args[p].readonly THEN "r" ELSE "rw"
                v == args[p].volume
                wanted == [mds |-> <<"allow " \o lv \o " path=/volumes/kubernetes/" \o v>>,
                           osd |-> <<"allow " \o lv \o " pool=cephfs_data namespace=fsvolumens_" \o v>>]
            IN  \A k \in {"mds", "osd"} :
                    LET t == split(cmds[p][i].caps[k]) IN
                    /\ \A a, b \in DOMAIN t : t[a] = t[b] => a = b
                    /\ Cardinality({a \in DOMAIN t : t[a] = wanted[k]}) = 1

C6_IdempotentString ==
    (rpc = "again" /\ want # unwanted) => res2 = res

(* C6 amended: applying cap_update to its own result returns a string with *)
(* the same token set.                                                     *)
C6_IdempotentTokens ==
    (rpc = "again" /\ want # unwanted) => set(split(res2)) = set(split(res))

C6_Witness ==
    /\ rpc = "again"
    /\ want # unwanted
    /\ res2 # res
    /\ unwanted \in set(split(orig))

(* C7: the mon capability sent with 'auth caps' is the one of the fetched  *)
(* entity, and right after the update the stored entity differs from the   *)
(* fetched one in mds and osd only.                                        *)
C7_MonPreserved ==
    \A p \in Procs : \A i \in DOMAIN cmds[p] :
        cmds[p][i].prefix = "auth caps" =>
            LET old == existing[p][1]
                c == cmds[p][i].caps
                e == "client." \o args[p].auth_id
            IN  /\ ("mon" \in DOMAIN c) = ("mon" \in DOMAIN old.caps)
                /\ "mon" \in DOMAIN c => c.mon = old.caps.mon
                /\ pc[p] = "auth get again" =>
                      /\ store[e].entity = old.entity
                      /\ store[e].key = old.key
                      /\ DOMAIN store[e].caps = DOMAIN old.caps \cup {"mds", "osd"}
                      /\ "mon" \in DOMAIN old.caps => store[e].caps.mon = old.caps.mon

C7_Witness ==
    \E p \in Procs :
        /\ pc[p] = "auth get again"
        /\ existing[p][1].caps.mon = <<"allow *">>
        /\ store["client." \o args[p].auth_id].caps.mds # existing[p][1].caps.mds

(* C8 as stated: authorize returns only after a re-fetch that follows the  *)
(* commit, on the create path and on the update path alike, and that       *)
(* re-fetch yielded exactly one result named 'client.<entity_id>'.         *)
C8_AlwaysRefetched ==
    \A p \in Procs :
        pc[p] = "returned" =>
            LET n == Len(cmds[p]) IN
            /\ n >= 3
            /\ cmds[p][n].prefix = "auth get"
            /\ cmds[p][n - 1].prefix \in {"auth caps", "auth get-or-create"}
            /\ Len(caps[p]) = 1
            /\ caps[p][1].entity = "client." \o args[p].auth_id

(* C8 amended: authorize returns only when the output it checks is exactly *)
(* one result named 'client.<entity_id>', and an AssertionError is raised  *)
(* only when it is not; on the update path that output is the one of a     *)
(* re-fetch issued after 'auth caps', on the create path it is the output  *)
(* of 'auth get-or-create' itself and no re-fetch is issued.               *)
C8_CheckedOutput ==
    \A p \in Procs :
        LET n == Len(cmds[p])
            one == Len(caps[p]) = 1 /\ caps[p][1].entity = "client." \o args[p].auth_id
        IN  /\ pc[p] = "returned" => one
            /\ err[p] = "AssertionError" => ~one
            /\ pc[p] \in {"assert", "returned"} \/ err[p] = "AssertionError" =>
                  \/ /\ n = 3
                     /\ cmds[p][2].prefix = "auth caps"
                     /\ cmds[p][3].prefix = "auth get"
                  \/ /\ n = 2
                     /\ cmds[p][2].prefix = "auth get-or-create"

C8_Witness ==
    \E p \in Procs :
        /\ pc[p] = "returned"
        /\ Len(cmds[p]) = 2
        /\ cmds[p][2].prefix = "auth get-or-create"

(* C9: after a transport or permission failure of the fetch, the call has  *)
(* raised and has sent no 'auth get-or-create' and no 'auth caps'.         *)
C9_FetchFailureSurfaced ==
    \A p \in Procs :
        fetch[p] = "transport" =>
            /\ pc[p] = "raised"
            /\ \A i \in DOMAIN cmds[p] : cmds[p][i].prefix = "auth get"

(* C10 as stated: cap_update called with want = unwanted raises and        *)
(* returns no string.                                                      *)
C10_RaisesOnEqual ==
    (rpc # "input" /\ want = unwanted) => (rpc = "raised" /\ res = EmptyStr)

(* C10 amended: cap_update called with want = unwanted returns normally;   *)
(* the tokens of its result are those of existing together with want.      *)
C10_ReturnsOnEqual ==
    (rpc # "input" /\ want = unwanted) =>
        /\ rpc \in {"returned", "again"}
        /\ set(split(res)) = set(split(orig)) \cup {want}

C10_Witness ==
    /\ rpc = "returned"
    /\ want = unwanted
    /\ want \in set(split(orig))
    /\ Cardinality(set(split(orig))) >= 2

(* C11 as stated: two calls of cap_update given the same token set (the    *)
(* second is given the first one's result, which lists that set in        *)
(* whatever order the first call produced) return the identical string.   *)
C11_SameString ==
    (rpc = "again" /\ set(split(orig)) = set(split(res))) => res2 = res

(* C11 amended: two calls of cap_update given the same token set return    *)
(* strings that each list every token of that set exactly once; the order *)
(* of the tokens is not fixed, so the two strings may differ.             *)
C11_SameTokensOnce ==
    (rpc = "again" /\ set(split(orig)) = set(split(res))) =>
        LET t1 == split(res)
            t2 == split(res2)
        IN  /\ set(t1) = set(split(orig))
            /\ set(t2) = set(split(orig))
            /\ \A a, b \in DOMAIN t1 : t1[a] = t1[b] => a = b
            /\ \A a, b \in DOMAIN t2 : t2[a] = t2[b] => a = b

C11_Witness ==
    /\ rpc = "again"
    /\ set(split(orig)) = set(split(res))
    /\ Cardinality(set(split(orig))) >= 2
    /\ orig # res
    /\ res2 # res
    /\ res2 # orig

(* C12: when 'auth caps' is sent for an entity that was fetched without    *)
(* an mds (or osd) capability, or with an empty one, the string sent for  *)
(* that subsystem is exactly the desired grant: no empty token, no        *)
(* leading or trailing comma.                                             *)
C12_EmptyExistingGivesGrant ==
    \A p \in Procs : \A i \in DOMAIN cmds[p] :
        cmds[p][i].prefix = "auth caps" =>
            LET lv == IF args[p].readonly THEN "r" ELSE "rw"
                v == args[p].volume
                old == existing[p][1].caps
                desired ==
                    [mds |-> <<"allow r", ",", "allow " \o lv \o " path=/volumes/kubernetes/" \o v>>,
                     osd |-> <<"allow " \o lv \o " pool=cephfs_data namespace=fsvolumens_" \o v>>]
            IN  \A k \in {"mds", "osd"} :
                    (k \notin DOMAIN old \/ old[k] = <<>>) =>
                        /\ cmds[p][i].caps[k] = desired[k]
                        /\ <<>> \notin set(split(cmds[p][i].caps[k]))

(* C13: nothing orders two invocations on the same entity. Whenever both   *)
(* fetched the same record, one that held the grant of neither's volume,  *)
(* and both then committed for different volumes, the stored caps are the *)
(* caps one of them committed, computed from that stale record alone: the *)
(* osd and mds grants of exactly one of the two volumes are stored and    *)
(* the other invocation's grants are gone.                                *)
C13_LastWriterWins ==
    \A p, q \in Procs :
        LET committed(r) ==
                /\ Len(cmds[r]) >= 2
                /\ cmds[r][2].prefix = "auth caps"
                /\ ~(pc[r] = "raised" /\ Len(cmds[r]) = 2)
            osd(r) == <<"allow rw pool=cephfs_data namespace=fsvolumens_" \o args[r].volume>>
            mds(r) == <<"allow rw path=/volumes/kubernetes/" \o args[r].volume>>
            e == "client." \o args[p].auth_id
        IN  ( /\ p # q
              /\ committed(p)
              /\ committed(q)
              /\ args[p].volume # args[q].volume
              /\ existing[p] = existing[q]
              /\ \A r \in {p, q} :
                    mds(r) \notin set(split(existing[p][1].caps.mds)) ) =>
                /\ store[e].caps \in {cmds[p][2].caps, cmds[q][2].caps}
                /\ (osd(p) \in set(split(store[e].caps.osd)))
                      # (osd(q) \in set(split(store[e].caps.osd)))
                /\ (mds(p) \in set(split(store[e].caps.mds)))
                      # (mds(q) \in set(split(store[e].caps.mds)))

(* both invocations returned a record, and the first committer's grant,   *)
(* which it did commit, is no longer stored                               *)
C13_Witness ==
    \E p, q \in Procs :
        /\ p # q
        /\ pc[p] = "returned"
        /\ pc[q] = "returned"
        /\ fetch[p] = "found"
        /\ fetch[q] = "found"
        /\ existing[p] = existing[q]
        /\ args[p].volume # args[q].volume
        /\ store["client." \o args[p].auth_id].caps = cmds[q][2].caps
        /\ <<"allow rw pool=cephfs_data namespace=fsvolumens_" \o args[p].volume>>
              \in set(split(cmds[p][2].caps.osd))
        /\ <<"allow rw pool=cephfs_data namespace=fsvolumens_" \o args[p].volume>>
              \notin set(split(store["client." \o args[p].auth_id].caps.osd))

====
